---- MODULE Spec2Model ----
(***************************************************************************)
(* Model of BZsearch.py: the UP-watch storage (UpWatchStorage), the chat   *)
(* command handlers and the periodic reconciliation job check_up_updates.  *)
(*                                                                         *)
(* Names and ids are sequences of one-character strings so that lower(),   *)
(* strip(), isdigit() and slicing are computed, not assumed.  A Python     *)
(* dict is a sequence of [k, v] entries in insertion order.                *)
(***************************************************************************)
EXTENDS Integers, Sequences, FiniteSets, Bags, TLC

VARIABLES
    data,          \* UpWatchStorage._data
    name_index,    \* UpWatchStorage.name_index
    file,          \* content of WATCH_JSON_PATH
    search_cache,  \* module global search_cache
    now,           \* datetime.now(), in minutes
    job,           \* the running check_up_updates coroutine (locals + position)
    cmds,          \* the running command handler coroutines
    prev,          \* history: outcome of the last evaluation of each subscription
    ev,            \* history: the last observable event (reply, notification, ...)
    issued,        \* number of commands received so far
    faults,        \* number of failed disk writes and crashes so far
    legacy,        \* history: the file the process was first started on
    phase          \* life cycle of the process

vars == <<data, name_index, file, search_cache, now, job, cmds, prev, ev, issued, faults, legacy, phase>>

-----------------------------------------------------------------------------
(* Bounds and program constants *)

MaxTime == 2
MaxCmds == 3
MaxResp == 2
MaxRecs == 3
MaxFaults == 1

MAX_RESULTS == 5
CACHE_EXPIRE_MINUTES == 3
UP_WATCH_INTERVAL == 1
SuffixLen == 4

None == "None"

-----------------------------------------------------------------------------
(* str methods *)

LowerChar(c) ==
    CASE c = "A" -> "a"
      [] c = "B" -> "b"
      [] c = "K" -> "k"
      [] OTHER -> c

Lower(s) == [i \in 1..Len(s) |-> LowerChar(s[i])]

IsSpace(c) == c = " "

RECURSIVE LStrip(_)
LStrip(s) == IF s # <<>> /\ IsSpace(Head(s)) THEN LStrip(Tail(s)) ELSE s

RECURSIVE RStrip(_)
RStrip(s) ==
    IF s # <<>> /\ IsSpace(s[Len(s)]) THEN RStrip(SubSeq(s, 1, Len(s) - 1)) ELSE s

Strip(s) == RStrip(LStrip(s))

Digits == {"0", "1", "2", "3", "4", "5", "6", "7", "8", "9"}

IsDigit(s) == s # <<>> /\ \A i \in 1..Len(s) : s[i] \in Digits

\* s[-n:]
LastChars(s, n) == IF Len(s) <= n THEN s ELSE SubSeq(s, Len(s) - n + 1, Len(s))

normalize_name(name) == Lower(Strip(name))

\* str(group_id) and int(group_id_str) for the group ids in use
GroupIds == {1, 2}

StrOfInt(n) == ToString(n)

IntOfStr(s) == CHOOSE n \in GroupIds : ToString(n) = s

-----------------------------------------------------------------------------
(* dict operations; a dict is a sequence of entries [k |-> key, v |-> value] *)

DKeys(d) == {d[i].k : i \in 1..Len(d)}

DHas(d, k) == \E i \in 1..Len(d) : d[i].k = k

DGet(d, k) == d[CHOOSE i \in 1..Len(d) : d[i].k = k].v

DSet(d, k, v) ==
    IF DHas(d, k)
    THEN [i \in 1..Len(d) |-> IF d[i].k = k THEN [k |-> k, v |-> v] ELSE d[i]]
    ELSE Append(d, [k |-> k, v |-> v])

DDel(d, k) == SelectSeq(d, LAMBDA e : e.k # k)

\* name_index is never iterated: a function on the set of its keys
IdxSet(idx, k, v) == [x \in DOMAIN idx \cup {k} |-> IF x = k THEN v ELSE idx[x]]

IdxDel(idx, k) == [x \in DOMAIN idx \ {k} |-> idx[x]]

EmptyIdx == [x \in {} |-> <<>>]

\* the file and what save() leaves in it
NoFile == [state |-> "absent", content |-> <<>>]

Written(d) == [state |-> "ok", content |-> d]

Truncated == [state |-> "truncated", content |-> <<>>]

-----------------------------------------------------------------------------
(* UpWatchStorage *)

\* save(): w is what happens at the disk: "ok" the dump completes, "fail" open()
\* raises and the exception is swallowed, "torn" the process dies after
\* open(..., 'w') has truncated the file and before json.dump has finished
save(f, d, w) ==
    CASE w = "ok" -> Written(d)
      [] w = "fail" -> f
      [] w = "torn" -> Truncated

Rec(last_check, last_vid) == [last_check |-> last_check, last_vid |-> last_vid]

Store(d, idx, f) == [data |-> d, name_index |-> idx, file |-> f]

add_watch(S, group_id, up_name, last_vid, t, w) ==
    LET g == StrOfInt(group_id)
        d0 == IF DHas(S.data, g) THEN S.data ELSE DSet(S.data, g, <<>>)
        d1 == DSet(d0, g, DSet(DGet(d0, g), up_name, Rec(t, last_vid)))
    IN  Store(d1, IdxSet(S.name_index, Lower(up_name), <<g, up_name>>), save(S.file, d1, w))

Watched(d, g, up_name) == DHas(d, g) /\ DHas(DGet(d, g), up_name)

remove_watch(S, group_id, up_name, w) ==
    LET g == StrOfInt(group_id) IN
    IF Watched(S.data, g, up_name)
    THEN LET ups == DDel(DGet(S.data, g), up_name)
             d1 == IF ups = <<>> THEN DDel(S.data, g) ELSE DSet(S.data, g, ups)
         IN  [ok |-> TRUE,
              store |-> Store(d1, IdxDel(S.name_index, Lower(up_name)), save(S.file, d1, w))]
    ELSE [ok |-> FALSE, store |-> S]

\* update_last_video that changes the record and leaves the file as it was
update_last_video_NoSave(S, group_id, up_name, last_vid, t, w) ==
    LET g == StrOfInt(group_id) IN
    IF Watched(S.data, g, up_name)
    THEN Store(DSet(S.data, g, DSet(DGet(S.data, g), up_name, Rec(t, last_vid))),
               S.name_index, S.file)
    ELSE S

\* update_last_video that stores the record whether or not the subscription exists
update_last_video_Upsert(S, group_id, up_name, last_vid, t, w) ==
    LET r == add_watch(S, group_id, up_name, last_vid, t, w)
    IN  Store(r.data, S.name_index, r.file)

update_last_video(S, group_id, up_name, last_vid, t, w) ==
    LET g == StrOfInt(group_id) IN
    IF Watched(S.data, g, up_name)
    THEN LET d1 == DSet(S.data, g, DSet(DGet(S.data, g), up_name, Rec(t, last_vid)))
         IN  Store(d1, S.name_index, save(S.file, d1, w))
    ELSE S

find_up_by_name(idx, name) ==
    IF normalize_name(name) \in DOMAIN idx THEN idx[normalize_name(name)] ELSE <<>>

get_group_watches(d, group_id) ==
    IF DHas(d, StrOfInt(group_id)) THEN DGet(d, StrOfInt(group_id)) ELSE <<>>

-----------------------------------------------------------------------------
(* loading and migration *)

is_old_format(old_data) ==
    \E i \in 1..Len(old_data) :
        \E j \in 1..Len(old_data[i].v) : IsDigit(old_data[i].v[j].k)

WellFormedInfo(info) == {"up_name", "last_check", "last_vid"} \subseteq DOMAIN info

\* the key a legacy record is stored under
MigratedName(up_name, uid, idx) ==
    IF Lower(up_name) \in DOMAIN idx
    THEN up_name \o <<"_">> \o LastChars(uid, SuffixLen)
    ELSE up_name

\* the inner loop of _migrate_from_old_format over one group
RECURSIVE MigrateUps(_, _, _, _)
MigrateUps(ups, g, d, idx) ==
    IF ups = <<>> THEN [d |-> d, idx |-> idx]
    ELSE LET uid == Head(ups).k
             info == Head(ups).v
         IN  IF ~WellFormedInfo(info)
             THEN MigrateUps(Tail(ups), g, d, idx)
             ELSE LET up_name == MigratedName(info.up_name, uid, idx)
                  IN  MigrateUps(Tail(ups), g,
                                 DSet(d, up_name, Rec(info.last_check, info.last_vid)),
                                 IdxSet(idx, Lower(up_name), <<g, up_name>>))

RECURSIVE MigrateGroups(_, _, _)
MigrateGroups(old_data, d, idx) ==
    IF old_data = <<>> THEN [d |-> d, idx |-> idx]
    ELSE LET g == Head(old_data).k
             r == MigrateUps(Head(old_data).v, g, <<>>, idx)
         IN  MigrateGroups(Tail(old_data), DSet(d, g, r.d), r.idx)

_migrate_from_old_format(old_data, f, w) ==
    LET r == MigrateGroups(old_data, <<>>, EmptyIdx)
    IN  Store(r.d, r.idx, save(f, r.d, w))

\* the index rebuilt from a file in the current format: a later entry replaces
\* an earlier one with the same lower-cased name
RECURSIVE IndexUps(_, _, _)
IndexUps(ups, g, idx) ==
    IF ups = <<>> THEN idx
    ELSE IndexUps(Tail(ups), g, IdxSet(idx, Lower(Head(ups).k), <<g, Head(ups).k>>))

RECURSIVE IndexGroups(_, _)
IndexGroups(d, idx) ==
    IF d = <<>> THEN idx
    ELSE IndexGroups(Tail(d), IndexUps(Head(d).v, Head(d).k, idx))

_load_and_migrate(f, w) ==
    CASE f.state = "absent" -> Store(<<>>, EmptyIdx, f)
      [] f.state = "truncated" -> Store(<<>>, EmptyIdx, f)
      [] OTHER ->
            IF is_old_format(f.content)
            THEN _migrate_from_old_format(f.content, f, w)
            ELSE Store(f.content, IndexGroups(f.content, EmptyIdx), f)

-----------------------------------------------------------------------------
(* The video platform behind the HTTP calls: two creators and their videos.  *)
(* Every call may fail or answer with stale or unrelated records.            *)

UpAb == [mid |-> <<"7">>, uname |-> <<"A", "b">>]

UpK == [mid |-> <<"8">>, uname |-> <<"K">>]

Creators == {UpAb, UpK}

Videos == {"V1", "V2", "W1"}

Owner(bvid) == IF bvid = "W1" THEN UpK ELSE UpAb

\* minutes relative to the start of the process: V1 and W1 are older than the
\* process, V2 is published while it runs
Pubdate(bvid) == IF bvid = "V2" THEN 1 ELSE -1

Published(t) == {v \in Videos : Pubdate(v) <= t}

\* a record of the search API / the space API
Video(bvid) == [bvid |-> bvid, author |-> Owner(bvid).uname, pubdate |-> Pubdate(bvid)]

\* data['data'] of the view API
ViewInfo(bvid) == [bvid |-> bvid, owner |-> Owner(bvid).uname, pubdate |-> Pubdate(bvid)]

\* the sequences of at most n distinct elements of S
RECURSIVE DistinctSeqs(_, _)
DistinctSeqs(S, n) ==
    IF n = 0 THEN {<<>>}
    ELSE LET shorter == DistinctSeqs(S, n - 1)
         IN  shorter \cup
             UNION {{Append(q, x) : x \in S \ {q[i] : i \in 1..Len(q)}} :
                       q \in {r \in shorter : Len(r) = n - 1}}

\* answers of the search API to a keyword: "fail", or a page of records
SearchAnswers(t) ==
    {[ok |-> FALSE, list |-> <<>>]} \cup
    {[ok |-> TRUE, list |-> [i \in 1..Len(q) |-> Video(q[i])]] :
        q \in DistinctSeqs(Published(t), MaxResp)}

\* answers of the user search (page_size 1): nothing, or one user
UserAnswers == {<<>>} \cup {<<c>> : c \in Creators}

\* answers of the space API for mid: nothing, or videos of mid, newest first
SpaceAnswers(mid, t) ==
    {<<>>} \cup
    {[i \in 1..Len(q) |-> Video(q[i])] :
        q \in {r \in DistinctSeqs({v \in Published(t) : Owner(v).mid = mid}, MaxResp) :
                  r # <<>> /\ \A i \in 1..Len(r) - 1 : Pubdate(r[i]) >= Pubdate(r[i + 1])}}

\* answers of the view API for bvid: None, or the video's data
ViewAnswers(bvid, t) ==
    {[ok |-> FALSE, info |-> ViewInfo("V1")]} \cup
    (IF bvid \in Published(t) THEN {[ok |-> TRUE, info |-> ViewInfo(bvid)]} ELSE {})

\* get_up_info_by_name: the first user whose normalized name is the query's
RECURSIVE get_up_info_by_name(_, _)
get_up_info_by_name(name, result) ==
    IF result = <<>> THEN <<>>
    ELSE IF normalize_name(Head(result).uname) = normalize_name(name)
         THEN <<[mid |-> Head(result).mid, name |-> Head(result).uname]>>
         ELSE get_up_info_by_name(name, Tail(result))

-----------------------------------------------------------------------------
(* check_up_updates.  The coroutine runs from one suspension point (an HTTP *)
(* call or a send) to the next in one step; W carries what it reads and     *)
(* writes: data, name_index, file, search_cache, job, prev, ev.             *)

JobIdle ==
    [pc |-> "idle", gi |-> 0, gn |-> 0, ui |-> 0, un |-> 0, stale |-> FALSE,
     g |-> "", up_name |-> <<>>, last_vid |-> None, mid |-> <<>>, latest |-> None]

NoEvent == [type |-> "none", g |-> "", name |-> <<>>, vid |-> None]

Event(type, g, name, vid) == [type |-> type, g |-> g, name |-> name, vid |-> vid]

\* what the last evaluation of a subscription obtained: the record, whether it
\* differed from the stored last_vid, whether a notification was emitted
NoEval == [vid |-> None, differs |-> FALSE, emitted |-> FALSE]

\* a selection without the author comparison of line 459: the first record of
\* the page, whoever its author is (the guard C3 depends on is the difference)
FirstByAuthor_AnyAuthor(results, up_name) ==
    IF results = <<>> THEN <<>> ELSE <<Head(results)>>

\* for video in results: if normalize_name(video['author']) == normalize_name(up_name)
RECURSIVE FirstByAuthor(_, _)
FirstByAuthor(results, up_name) ==
    IF results = <<>> THEN <<>>
    ELSE IF normalize_name(Head(results).author) = normalize_name(up_name)
         THEN <<Head(results)>>
         ELSE FirstByAuthor(Tail(results), up_name)

CacheKey(search_type, keyword) == <<search_type, normalize_name(keyword)>>

\* an entry is served while its age is at most the expiry
CacheFresh_Inclusive(cache, key, t) ==
    key \in DOMAIN cache /\ t - cache[key].t <= CACHE_EXPIRE_MINUTES

\* an entry is served however old it is
CacheFresh_Forever(cache, key, t) == key \in DOMAIN cache

CacheFresh(cache, key, t) ==
    key \in DOMAIN cache /\ t - cache[key].t < CACHE_EXPIRE_MINUTES

FirstN(q, n) == IF Len(q) <= n THEN q ELSE SubSeq(q, 1, n)

\* is_new, from the answer of get_video_info(last_vid)
IsNew(latest, ans) == IF ~ans.ok THEN TRUE ELSE latest.pubdate > ans.info.pubdate

RECURSIVE AdvanceInner(_, _)

\* update_last_video, then the notification if is_new
UpdateAndNotify(W, t, latest, is_new) ==
    LET j == W.job
        S == update_last_video(Store(W.data, W.name_index, W.file),
                               IntOfStr(j.g), j.up_name, latest.bvid, t, "ok")
        W1 == [W EXCEPT !.data = S.data, !.name_index = S.name_index, !.file = S.file,
                        !.prev = [W.prev EXCEPT ![<<j.g, j.up_name>>] =
                                     [vid |-> latest.bvid, differs |-> latest.bvid # j.last_vid,
                                      emitted |-> is_new]]]
    IN  IF is_new
        THEN [W1 EXCEPT !.job = [j EXCEPT !.pc = "send", !.latest = latest.bvid],
                        !.ev = Event("notify", j.g, j.up_name, latest.bvid)]
        ELSE AdvanceInner(W1, t)

Decide(W, t, latest) ==
    IF W.job.last_vid = None \/ W.job.last_vid = ""
    THEN UpdateAndNotify(W, t, latest, TRUE)
    ELSE [W EXCEPT !.job = [W.job EXCEPT !.pc = "vinfo", !.latest = latest.bvid]]

\* "continue" that first stamps the subscription as checked
Continue_Touch(W, t) ==
    LET j == W.job
        S == update_last_video(Store(W.data, W.name_index, W.file),
                               IntOfStr(j.g), j.up_name, j.last_vid, t, "ok")
    IN  AdvanceInner([W EXCEPT !.data = S.data, !.file = S.file,
                               !.prev = [W.prev EXCEPT ![<<j.g, j.up_name>>] = NoEval]], t)

\* "continue" that leaves the loops instead
Continue_Abort(W, t) ==
    [W EXCEPT !.job = JobIdle, !.ev = Event("job_aborted", "", <<>>, None)]

\* "continue": this subscription is not evaluated further in this pass
Continue(W, t) ==
    AdvanceInner([W EXCEPT !.prev = [W.prev EXCEPT ![<<W.job.g, W.job.up_name>>] = NoEval]], t)

AfterSearch(W, t, results) ==
    IF results = <<>>
    THEN [W EXCEPT !.job = [W.job EXCEPT !.pc = "upinfo"]]
    ELSE LET m == FirstByAuthor(results, W.job.up_name)
         IN  IF m = <<>> THEN Continue(W, t) ELSE Decide(W, t, m[1])

\* info['last_check'] raises KeyError on a stored record without that field
HasLastCheck(info) == "last_check" \in DOMAIN info

\* the body of the loop up to the first HTTP call; an exception in it is caught
\* by the except clause of the body, which goes on with the next subscription
BeginEval(W, t) ==
    LET key == CacheKey("up", W.job.up_name)
        info == DGet(DGet(W.data, W.job.g), W.job.up_name)
    IN  IF ~HasLastCheck(info) THEN Continue(W, t)
        ELSE IF CacheFresh(W.search_cache, key, t)
             THEN AfterSearch(W, t, FirstN(W.search_cache[key].data, MAX_RESULTS))
             ELSE [W EXCEPT !.job = [W.job EXCEPT !.pc = "search"]]

Aborted(W) == [W EXCEPT !.job = JobIdle, !.ev = Event("job_aborted", "", <<>>, None)]

\* next() of the iterator over all_watches.items()
AdvanceOuter(W, t) ==
    LET j == W.job IN
    IF Len(W.data) # j.gn THEN Aborted(W)
    ELSE IF j.gi >= Len(W.data)
         THEN [W EXCEPT !.job = JobIdle, !.ev = Event("job_done", "", <<>>, None)]
         ELSE LET grp == W.data[j.gi + 1]
              IN  AdvanceInner([W EXCEPT !.job = [j EXCEPT !.gi = j.gi + 1, !.g = grp.k,
                                                          !.ui = 0, !.un = Len(grp.v),
                                                          !.stale = FALSE]], t)

\* next() of the iterator over up_dict.items()
AdvanceInner(W, t) ==
    LET j == W.job
        up_dict == IF j.stale \/ ~DHas(W.data, j.g) THEN <<>> ELSE DGet(W.data, j.g)
    IN  IF Len(up_dict) # j.un THEN Aborted(W)
        ELSE IF j.ui >= Len(up_dict) THEN AdvanceOuter(W, t)
             ELSE LET e == up_dict[j.ui + 1]
                  IN  BeginEval([W EXCEPT !.job = [j EXCEPT !.ui = j.ui + 1, !.up_name = e.k,
                                                            !.last_vid = e.v.last_vid,
                                                            !.mid = <<>>, !.latest = None]], t)

-----------------------------------------------------------------------------
(* The running process: the scheduled job, the command handlers, the clock *)

WNow == [data |-> data, name_index |-> name_index, file |-> file,
         search_cache |-> search_cache, job |-> job, prev |-> prev, ev |-> NoEvent]

Becomes(W) ==
    /\ data' = W.data
    /\ name_index' = W.name_index
    /\ file' = W.file
    /\ search_cache' = W.search_cache
    /\ job' = W.job
    /\ prev' = W.prev
    /\ ev' = W.ev

SubKeys == {StrOfInt(n) : n \in GroupIds} \X {c.uname : c \in Creators}

\* check_up_updates from its entry to the first suspension
JobStart(W, t) ==
    IF W.data = <<>>
    THEN [W EXCEPT !.ev = Event("job_done", "", <<>>, None)]
    ELSE AdvanceOuter([W EXCEPT !.job = [JobIdle EXCEPT !.gn = Len(W.data)]], t)

\* get_bilibili_search(up_name, "up") returns from its HTTP call
JobSearchReturn ==
    /\ phase = "up"
    /\ job.pc = "search"
    /\ \E ans \in SearchAnswers(now) :
          IF ans.ok
          THEN LET results == FirstN(ans.list, MAX_RESULTS)
                   key == CacheKey("up", job.up_name)
               IN  Becomes(AfterSearch(
                       [WNow EXCEPT !.search_cache =
                           IdxSet(search_cache, key, [data |-> results, t |-> now])],
                       now, results))
          ELSE Becomes(AfterSearch(WNow, now, <<>>))
    /\ UNCHANGED <<now, cmds, issued, faults, legacy, phase>>

\* get_up_info_by_name(up_name) returns (fallback path)
JobUpInfoReturn ==
    /\ phase = "up"
    /\ job.pc = "upinfo"
    /\ \E ans \in UserAnswers :
          LET up_info == get_up_info_by_name(job.up_name, ans) IN
          IF up_info = <<>>
          THEN Becomes(Continue(WNow, now))
          ELSE Becomes([WNow EXCEPT !.job = [job EXCEPT !.pc = "upvideos",
                                                        !.mid = up_info[1].mid]])
    /\ UNCHANGED <<now, cmds, issued, faults, legacy, phase>>

\* get_up_videos(mid) returns (fallback path)
JobUpVideosReturn ==
    /\ phase = "up"
    /\ job.pc = "upvideos"
    /\ \E videos \in SpaceAnswers(job.mid, now) :
          IF videos = <<>>
          THEN Becomes(Continue(WNow, now))
          ELSE Becomes(Decide(WNow, now, videos[1]))
    /\ UNCHANGED <<now, cmds, issued, faults, legacy, phase>>

\* get_video_info(last_vid) returns
JobVideoInfoReturn ==
    /\ phase = "up"
    /\ job.pc = "vinfo"
    /\ \E ans \in ViewAnswers(job.last_vid, now) :
          Becomes(UpdateAndNotify(WNow, now, Video(job.latest),
                                  IsNew(Video(job.latest), ans)))
    /\ UNCHANGED <<now, cmds, issued, faults, legacy, phase>>

\* bot.send_group_msg returns or raises
JobSendReturn ==
    /\ phase = "up"
    /\ job.pc = "send"
    /\ \E sent \in BOOLEAN :
          Becomes(AdvanceInner(
              [WNow EXCEPT !.ev = Event(IF sent THEN "delivered" ELSE "send_failed",
                                        job.g, job.up_name, job.latest)], now))
    /\ UNCHANGED <<now, cmds, issued, faults, legacy, phase>>

\* a running handler: where it is suspended and its locals
Cmd(pc, gid, name, mid, bvid) == [pc |-> pc, g |-> gid, name |-> name, mid |-> mid, bvid |-> bvid]

Running == BagToSet(cmds)

Spawn(c) == cmds (+) SetToBag({c})

Resume(c, c2) == (cmds (-) SetToBag({c})) (+) SetToBag({c2})

Finish(c) == cmds (-) SetToBag({c})

\* what users type after a command prefix
WatchTexts == {<<"A", "b">>, <<"a", "B", " ">>}

UnwatchTexts == WatchTexts \cup {<<"K">>}

WatchLinks == {"V1", "V2", None}

Reply(type, gid, name, vid) == Event(type, StrOfInt(gid), name, vid)

\* watch_bilibili_up up to get_up_info_by_name
WatchStart(gid, text) ==
    /\ phase = "up"
    /\ issued < MaxCmds
    /\ issued' = issued + 1
    /\ LET up_name == Strip(text) IN
       IF up_name = <<>>
       THEN ev' = Reply("usage", gid, up_name, None) /\ cmds' = cmds
       ELSE IF find_up_by_name(name_index, up_name) # <<>>
            THEN ev' = Reply("already", gid, up_name, None) /\ cmds' = cmds
            ELSE /\ ev' = NoEvent
                 /\ cmds' = Spawn(Cmd("w_upinfo", gid, up_name, <<>>, None))
    /\ UNCHANGED <<data, name_index, file, search_cache, now, job, prev, faults, legacy, phase>>

\* watch_bilibili_up from get_up_info_by_name to get_up_videos
WatchUpInfoReturn(c) ==
    /\ phase = "up"
    /\ c.pc = "w_upinfo"
    /\ \E ans \in UserAnswers :
          LET up_info == get_up_info_by_name(c.name, ans) IN
          IF up_info = <<>>
          THEN /\ ev' = Reply("notfound", c.g, c.name, None)
               /\ cmds' = Finish(c)
          ELSE /\ ev' = NoEvent
               /\ cmds' = Resume(c, Cmd("w_upvideos", c.g, up_info[1].name,
                                        up_info[1].mid, None))
    /\ UNCHANGED <<data, name_index, file, search_cache, now, job, prev, issued, faults, legacy, phase>>

\* watch_bilibili_up from get_up_videos to the end
WatchUpVideosReturn(c) ==
    /\ phase = "up"
    /\ c.pc = "w_upvideos"
    /\ cmds' = Finish(c)
    /\ \E videos \in SpaceAnswers(c.mid, now) :
          IF videos = <<>>
          THEN /\ ev' = Reply("novideos", c.g, c.name, None)
               /\ UNCHANGED <<data, name_index, file, prev>>
          ELSE LET S == add_watch(Store(data, name_index, file), c.g, c.name,
                                  videos[1].bvid, now, "ok")
               IN  /\ data' = S.data
                   /\ name_index' = S.name_index
                   /\ file' = S.file
                   /\ prev' = [prev EXCEPT ![<<StrOfInt(c.g), c.name>>] = NoEval]
                   /\ ev' = Reply("added", c.g, c.name, videos[1].bvid)
    /\ UNCHANGED <<search_cache, now, job, issued, faults, legacy, phase>>

\* watch_by_video up to get_video_info; bvid = None: no BV number in the link
VideoWatchStart(gid, bvid) ==
    /\ phase = "up"
    /\ issued < MaxCmds
    /\ issued' = issued + 1
    /\ IF bvid = None
       THEN ev' = Reply("badlink", gid, <<>>, None) /\ cmds' = cmds
       ELSE /\ ev' = NoEvent
            /\ cmds' = Spawn(Cmd("v_vinfo", gid, <<>>, <<>>, bvid))
    /\ UNCHANGED <<data, name_index, file, search_cache, now, job, prev, faults, legacy, phase>>

\* watch_by_video from get_video_info to the end
VideoWatchInfoReturn(c) ==
    /\ phase = "up"
    /\ c.pc = "v_vinfo"
    /\ cmds' = Finish(c)
    /\ \E ans \in ViewAnswers(c.bvid, now) :
          IF ~ans.ok
          THEN /\ ev' = Reply("vfail", c.g, <<>>, c.bvid)
               /\ UNCHANGED <<data, name_index, file, prev>>
          ELSE LET up_name == ans.info.owner IN
               IF find_up_by_name(name_index, up_name) # <<>>
               THEN /\ ev' = Reply("already", c.g, up_name, None)
                    /\ UNCHANGED <<data, name_index, file, prev>>
               ELSE LET S == add_watch(Store(data, name_index, file), c.g, up_name,
                                       c.bvid, now, "ok")
                    IN  /\ data' = S.data
                        /\ name_index' = S.name_index
                        /\ file' = S.file
                        /\ prev' = [prev EXCEPT ![<<StrOfInt(c.g), up_name>>] = NoEval]
                        /\ ev' = Reply("added", c.g, up_name, c.bvid)
    /\ UNCHANGED <<search_cache, now, job, issued, faults, legacy, phase>>

\* the job's inner iterator keeps the dict of its group; when remove_watch
\* drops that group from _data the iterator is left with the emptied dict
Detach(j, d0, d1) ==
    IF j.pc # "idle" /\ DHas(d0, j.g) /\ ~DHas(d1, j.g) THEN [j EXCEPT !.stale = TRUE] ELSE j

\* unwatch_bilibili_up: the reply and the store it leaves
unwatch_bilibili_up(S, gid, text) ==
    LET up_name == Strip(text)
        found == find_up_by_name(S.name_index, up_name)
    IN  IF found = <<>>
        THEN [reply |-> Reply("notwatching", gid, up_name, None), store |-> S]
        ELSE LET r == remove_watch(S, IntOfStr(found[1]), found[2], "ok")
             IN  [reply |-> Reply(IF r.ok THEN "removed" ELSE "removefail", gid, found[2], None),
                  store |-> r.store]

Unwatch(gid, text) ==
    /\ phase = "up"
    /\ issued < MaxCmds
    /\ issued' = issued + 1
    /\ LET r == unwatch_bilibili_up(Store(data, name_index, file), gid, text)
       IN  /\ data' = r.store.data
           /\ name_index' = r.store.name_index
           /\ file' = r.store.file
           /\ job' = Detach(job, data, r.store.data)
           /\ ev' = r.reply
    /\ UNCHANGED <<search_cache, now, cmds, prev, faults, legacy, phase>>

\* a minute passes: the interval trigger (UP_WATCH_INTERVAL) fires, and the
\* scheduler enters check_up_updates unless its previous run is still going
Minute ==
    /\ phase = "up"
    /\ now < MaxTime
    /\ now' = now + UP_WATCH_INTERVAL
    /\ IF job.pc = "idle" THEN Becomes(JobStart(WNow, now + UP_WATCH_INTERVAL))
                          ELSE Becomes(WNow)
    /\ UNCHANGED <<cmds, issued, faults, legacy, phase>>

\* the files the process may be started on: none, or one in the current format
\* with a subscription that has no last_vid yet
StartFiles ==
    {NoFile, Written(<<[k |-> "1", v |-> <<[k |-> UpAb.uname, v |-> Rec(-1, "")]>>]>>)}

\* the state after import: watch_storage = UpWatchStorage()
Init ==
    /\ legacy \in StartFiles
    /\ LET S == _load_and_migrate(legacy, "ok")
       IN  data = S.data /\ name_index = S.name_index /\ file = S.file
    /\ search_cache = [x \in {} |-> <<>>]
    /\ now = 0
    /\ job = JobIdle
    /\ cmds = EmptyBag
    /\ prev = [k \in SubKeys |-> NoEval]
    /\ ev = NoEvent
    /\ issued = 0
    /\ faults = 0
    /\ phase = "up"

Next ==
    \/ JobSearchReturn
    \/ JobUpInfoReturn
    \/ JobUpVideosReturn
    \/ JobVideoInfoReturn
    \/ JobSendReturn
    \/ \E gid \in GroupIds, text \in WatchTexts : WatchStart(gid, text)
    \/ \E c \in Running : WatchUpInfoReturn(c)
    \/ \E c \in Running : WatchUpVideosReturn(c)
    \/ \E gid \in GroupIds, bvid \in WatchLinks : VideoWatchStart(gid, bvid)
    \/ \E c \in Running : VideoWatchInfoReturn(c)
    \/ \E gid \in GroupIds, text \in UnwatchTexts : Unwatch(gid, text)
    \/ Minute

Spec == Init /\ [][Next]_vars

-----------------------------------------------------------------------------
(* Properties of the running process *)

\* the record of subscription k = <<group, name>>
RecOf(d, k) == DGet(DGet(d, k[1]), k[2])

\* the job has moved on (a handler that only detaches its iterator has not)
JobStep == <<job'.pc, job'.gi, job'.ui>> # <<job.pc, job.gi, job.ui>>

JobKey(j) == <<j.g, j.up_name>>

\* C1: when the evaluation of a subscription in one tick obtained a record C
\* other than the stored last_vid and notified it, the evaluation in the next
\* tick that obtains the same C emits no notification (NoChange)
C1_NotifiedOnce ==
    [][(JobStep /\ job'.pc = "send")
          => LET first == prev[JobKey(job')]
             IN  ~(first.differs /\ first.emitted /\ first.vid = job'.latest)]_vars

\* C2: an evaluation whose latest attributable record was published before the
\* subscription's last_check emits no notification and leaves last_vid as stored
C2_NeverRegresses ==
    [][(/\ JobStep
        /\ job.pc = "vinfo"
        /\ Watched(data, job.g, job.up_name)
        /\ job.last_vid = RecOf(data, JobKey(job)).last_vid
        /\ Pubdate(job.latest) < RecOf(data, JobKey(job)).last_check)
          => (/\ ev'.type # "notify"
              /\ Watched(data', job.g, job.up_name)
              /\ RecOf(data', JobKey(job)).last_vid = job.last_vid)]_vars

Attributable(bvid, up_name) ==
    normalize_name(Owner(bvid).uname) = normalize_name(up_name)

\* C3: no record of another author is notified for a subscription or stored as
\* its last_vid
C3_AttributionGuard ==
    /\ ev.type = "notify" => Attributable(ev.vid, ev.name)
    /\ \A i \in 1..Len(data) : \A k \in 1..Len(data[i].v) :
          data[i].v[k].v.last_vid \in Videos
              => Attributable(data[i].v[k].v.last_vid, data[i].v[k].k)

\* C3 witness: the search page for the subscription starts with another author's
\* record and the job went on with the tracked creator's record behind it
C3_Witness ==
    /\ job.pc = "vinfo"
    /\ Attributable(job.latest, job.up_name)
    /\ CacheKey("up", job.up_name) \in DOMAIN search_cache
    /\ LET page == search_cache[CacheKey("up", job.up_name)].data
       IN  page # <<>> /\ ~Attributable(page[1].bvid, job.up_name)

\* C4: a subscribe command that completes while its (group, creator) is stored
\* does not add it again
C4_SecondSubscribeRejected ==
    [][\A k \in SubKeys :
          Watched(data, k[1], k[2])
              => ~(ev'.type = "added" /\ ev'.g = k[1] /\ ev'.name = k[2])]_vars

GroupWatches(d, g, name) ==
    DHas(d, g) /\ \E k \in DKeys(DGet(d, g)) : normalize_name(k) = normalize_name(name)

\* C5: a subscribe of group G for creator c is answered "already watching" only
\* when G itself watches c
C5_RejectedOnlyIfOwnGroupWatches ==
    [][ev'.type = "already" => GroupWatches(data, ev'.g, ev'.name)]_vars

GroupDict(d, g) == IF DHas(d, g) THEN DGet(d, g) ELSE <<>>

\* C6: an unsubscribe command of group G leaves the subscriptions of every other
\* group as they were, and fails when G does not watch the creator
C6_UnwatchOwnGroupOnly ==
    [][ev'.type \in {"removed", "removefail", "notwatching"}
          => /\ \A n \in GroupIds :
                   StrOfInt(n) # ev'.g => GroupDict(data', StrOfInt(n)) = GroupDict(data, StrOfInt(n))
             /\ ev'.type = "removed" => GroupWatches(data, ev'.g, ev'.name)]_vars

\* the store without subscription <<g, c>>
Without(d, g, c) ==
    LET ups == DDel(DGet(d, g), c)
    IN  IF ups = <<>> THEN DDel(d, g) ELSE DSet(d, g, ups)

\* C7: for every stored subscription (G, c), unsubscribing from G by the key c
\* and by c in another letter case both succeed and leave the same store, the
\* one without (G, c)
C7_RemoveByNameOrKey ==
    \A i \in 1..Len(data) : \A k \in 1..Len(data[i].v) :
        LET g == data[i].k
            c == data[i].v[k].k
            S == Store(data, name_index, file)
            byKey == unwatch_bilibili_up(S, IntOfStr(g), c)
            byName == unwatch_bilibili_up(S, IntOfStr(g), Lower(c))
        IN  /\ byKey.reply.type = "removed"
            /\ byName.reply.type = "removed"
            /\ byKey.store.data = byName.store.data
            /\ byKey.store.data = Without(data, g, c)

-----------------------------------------------------------------------------
(* Start-up on a legacy file: UpWatchStorage() is constructed on a file keyed *)
(* by creator id, then the process is restarted on the file it left.          *)

LegacyGroups == {"1", "2"}

LegacyUids == {<<"7">>, <<"1", "5", "5", "5", "5">>, <<"2", "5", "5", "5", "5">>}

LegacyNames == {<<"A">>, <<"a">>, <<"4", "2">>}

\* the value stored under uid: its last_vid and last_check tell the records apart
LegacyInfo(uid, up_name) ==
    [up_name |-> up_name, last_check |-> Len(uid), last_vid |-> <<"B", "V">> \o uid]

\* the dicts uid -> info of at most n records
LegacyUps(n) ==
    UNION {{[i \in 1..m |-> [k |-> q[i], v |-> LegacyInfo(q[i], names[i])]] :
               q \in {r \in DistinctSeqs(LegacyUids, n) : Len(r) = m},
               names \in [1..m -> LegacyNames]} : m \in 0..n}

\* the files of one or two groups holding at most MaxRecs records
LegacyFiles ==
    {Written(<<[k |-> "1", v |-> u1]>>) : u1 \in LegacyUps(MaxRecs)} \cup
    {Written(<<[k |-> "1", v |-> p[1]], [k |-> "2", v |-> p[2]]>>) :
        p \in {q \in LegacyUps(MaxRecs) \X LegacyUps(MaxRecs) : Len(q[1]) + Len(q[2]) <= MaxRecs}}

Quiet ==
    /\ search_cache = [x \in {} |-> <<>>]
    /\ job = JobIdle
    /\ cmds = EmptyBag
    /\ prev = [k \in SubKeys |-> NoEval]
    /\ ev = NoEvent
    /\ issued = 0

InitLoad ==
    /\ file \in LegacyFiles
    /\ legacy = file
    /\ faults = 0
    /\ data = <<>>
    /\ name_index = EmptyIdx
    /\ now = 0
    /\ phase = "boot"
    /\ Quiet

\* UpWatchStorage() on the legacy file
Load(w) ==
    /\ phase = "boot"
    /\ LET S == _load_and_migrate(file, w)
       IN  data' = S.data /\ name_index' = S.name_index /\ file' = S.file
    /\ phase' = "loaded"
    /\ UNCHANGED <<search_cache, now, job, cmds, prev, ev, issued, faults, legacy>>

\* the process is started again: UpWatchStorage() on the file as it is now
Reload(w) ==
    /\ phase = "loaded"
    /\ LET S == _load_and_migrate(file, w)
       IN  data' = S.data /\ name_index' = S.name_index /\ file' = S.file
    /\ phase' = "reloaded"
    /\ UNCHANGED <<search_cache, now, job, cmds, prev, ev, issued, faults, legacy>>

NextLoad ==
    \/ \E w \in {"ok", "fail"} : Load(w)
    \/ \E w \in {"ok", "fail"} : Reload(w)

SpecLoad == InitLoad /\ [][NextLoad]_vars

\* the records (last_check, last_vid) of a dict, whatever their keys
RecsOf(ups) == {[last_check |-> ups[i].v.last_check, last_vid |-> ups[i].v.last_vid] :
                   i \in 1..Len(ups)}

\* C8: after Load() on a legacy store every group holds one record per legacy
\* record, with its last_check and last_vid
C8_MigrationLosesNothing ==
    (phase = "loaded" /\ is_old_format(legacy.content))
        => \A i \in 1..Len(legacy.content) :
              LET g == legacy.content[i].k
                  ups == legacy.content[i].v
              IN  /\ DHas(data, g)
                  /\ Len(DGet(data, g)) = Len(ups)
                  /\ RecsOf(DGet(data, g)) = RecsOf(ups)

\* C9: Load() on the file a migration has written changes neither the store nor
\* the file
C9_MigrationIdempotent ==
    [][(/\ phase = "loaded"
        /\ phase' = "reloaded"
        /\ is_old_format(legacy.content)
        /\ file = Written(data))
          => (data' = data /\ file' = file)]_vars

-----------------------------------------------------------------------------
(* The storage under its callers and a process that may die at any point:   *)
(* every mutating call either returns or is cut short by a crash, and the    *)
(* process is then started again on the file.                                *)

StoreVids == {"V1", "V2"}

InitStore ==
    /\ file = NoFile
    /\ legacy = NoFile
    /\ faults = 0
    /\ data = <<>>
    /\ name_index = EmptyIdx
    /\ now = 0
    /\ phase = "up"
    /\ Quiet

Installs(S) == data' = S.data /\ name_index' = S.name_index /\ file' = S.file

\* where the process dies in a mutating call: before save() opens the file,
\* between open(..., 'w') and the end of json.dump, or after the dump
CrashPoints == {"before", "torn", "after"}

\* the file left by a call that was to leave store S, cut short at cp
CrashFile(S, cp) ==
    CASE cp = "before" -> file
      [] cp = "torn" -> save(file, S.data, "torn")
      [] cp = "after" -> save(file, S.data, "ok")

\* data keeps the store the interrupted call was building, for reference
Dies(S, cp) ==
    /\ data' = S.data
    /\ name_index' = S.name_index
    /\ file' = CrashFile(S, cp)
    /\ phase' = "crashed"

\* a disk write that fails is counted
Faulty(w) ==
    IF w = "ok" THEN faults' = faults ELSE faults < MaxFaults /\ faults' = faults + 1

StoreAdd(gid, up_name, vid, w) ==
    /\ phase = "up"
    /\ Faulty(w)
    /\ Installs(add_watch(Store(data, name_index, file), gid, up_name, vid, now, w))
    /\ UNCHANGED <<search_cache, now, job, cmds, prev, ev, issued, legacy, phase>>

StoreRemove(gid, up_name, w) ==
    /\ phase = "up"
    /\ Faulty(w)
    /\ Installs(remove_watch(Store(data, name_index, file), gid, up_name, w).store)
    /\ UNCHANGED <<search_cache, now, job, cmds, prev, ev, issued, legacy, phase>>

StoreUpdate(gid, up_name, vid, w) ==
    /\ phase = "up"
    /\ Faulty(w)
    /\ Installs(update_last_video(Store(data, name_index, file), gid, up_name, vid, now, w))
    /\ UNCHANGED <<search_cache, now, job, cmds, prev, ev, issued, legacy, phase>>

CrashInAdd(gid, up_name, vid, cp) ==
    /\ phase = "up"
    /\ Faulty("crash")
    /\ Dies(add_watch(Store(data, name_index, file), gid, up_name, vid, now, "ok"), cp)
    /\ UNCHANGED <<search_cache, now, job, cmds, prev, ev, issued, legacy>>

CrashInRemove(gid, up_name, cp) ==
    /\ phase = "up"
    /\ Faulty("crash")
    /\ Watched(data, StrOfInt(gid), up_name)
    /\ Dies(remove_watch(Store(data, name_index, file), gid, up_name, "ok").store, cp)
    /\ UNCHANGED <<search_cache, now, job, cmds, prev, ev, issued, legacy>>

CrashInUpdate(gid, up_name, vid, cp) ==
    /\ phase = "up"
    /\ Faulty("crash")
    /\ Watched(data, StrOfInt(gid), up_name)
    /\ Dies(update_last_video(Store(data, name_index, file), gid, up_name, vid, now, "ok"), cp)
    /\ UNCHANGED <<search_cache, now, job, cmds, prev, ev, issued, legacy>>

\* the process is started again: UpWatchStorage() on the file as it is
Restart ==
    /\ phase = "crashed"
    /\ Installs(_load_and_migrate(file, "ok"))
    /\ phase' = "up"
    /\ UNCHANGED <<search_cache, now, job, cmds, prev, ev, issued, faults, legacy>>

StoreNames == {c.uname : c \in Creators}

NextStore ==
    \/ \E gid \in GroupIds, n \in StoreNames, v \in StoreVids, w \in {"ok", "fail"} :
          StoreAdd(gid, n, v, w)
    \/ \E gid \in GroupIds, n \in StoreNames, w \in {"ok", "fail"} : StoreRemove(gid, n, w)
    \/ \E gid \in GroupIds, n \in StoreNames, v \in StoreVids, w \in {"ok", "fail"} :
          StoreUpdate(gid, n, v, w)
    \/ \E gid \in GroupIds, n \in StoreNames, v \in StoreVids, cp \in CrashPoints :
          CrashInAdd(gid, n, v, cp)
    \/ \E gid \in GroupIds, n \in StoreNames, cp \in CrashPoints : CrashInRemove(gid, n, cp)
    \/ \E gid \in GroupIds, n \in StoreNames, v \in StoreVids, cp \in CrashPoints :
          CrashInUpdate(gid, n, v, cp)
    \/ Restart

SpecStore == InitStore /\ [][NextStore]_vars

\* C10: when the process dies in a mutating call, the file holds the complete
\* store of before the call or the complete store the call was writing
C10_CrashKeepsFileWhole ==
    [][(phase = "up" /\ phase' = "crashed" /\ file = Written(data))
          => (file' = file \/ file' = Written(data'))]_vars

-----------------------------------------------------------------------------
(* The storage from start-up on: UpWatchStorage() on the file it finds, then *)
(* any sequence of add_watch, remove_watch and update_last_video, each with a *)
(* disk write that completes or fails.                                        *)

\* the files the process may find: none, one that does not parse, one in the
\* current format, one keyed by creator id
PersistFiles ==
    {NoFile, Truncated,
     Written(<<[k |-> "1", v |-> <<[k |-> UpK.uname, v |-> Rec(-1, "W1")]>>]>>),
     Written(<<[k |-> "2", v |-> <<[k |-> UpAb.mid,
                                    v |-> [up_name |-> UpAb.uname, last_check |-> -1,
                                           last_vid |-> "V1"]]>>]>>)}

InitPersist ==
    /\ file \in PersistFiles
    /\ legacy = file
    /\ faults = 0
    /\ data = <<>>
    /\ name_index = EmptyIdx
    /\ now = 0
    /\ phase = "boot"
    /\ Quiet

\* watch_storage = UpWatchStorage(); only a migration writes the file
Boot(w) ==
    /\ phase = "boot"
    /\ w = "ok" \/ (file.state = "ok" /\ is_old_format(file.content))
    /\ Faulty(w)
    /\ Installs(_load_and_migrate(file, w))
    /\ phase' = "up"
    /\ UNCHANGED <<search_cache, now, job, cmds, prev, ev, issued, legacy>>

NextPersist ==
    \/ \E w \in {"ok", "fail"} : Boot(w)
    \/ \E gid \in GroupIds, n \in StoreNames, v \in StoreVids, w \in {"ok", "fail"} :
          StoreAdd(gid, n, v, w)
    \/ \E gid \in GroupIds, n \in StoreNames, w \in {"ok", "fail"} : StoreRemove(gid, n, w)
    \/ \E gid \in GroupIds, n \in StoreNames, v \in StoreVids, w \in {"ok", "fail"} :
          StoreUpdate(gid, n, v, w)

SpecPersist == InitPersist /\ [][NextPersist]_vars

\* C11: every call (the load with its migration, add, remove, update) that
\* changes the store or the file and whose disk write does not fail leaves a
\* file that holds the whole in-memory store
C11_FileEqualsStore ==
    [][(phase' = "up" /\ faults' = faults /\ (data' # data \/ file' # file))
          => file' = Written(data')]_vars

\* C11 witness: two groups are stored and on disk after an earlier write failed
C11_Witness ==
    /\ phase = "up"
    /\ faults = MaxFaults
    /\ Len(data) = 2
    /\ file = Written(data)
    /\ legacy.state = "ok"
    /\ is_old_format(legacy.content)

-----------------------------------------------------------------------------
(* Properties of the job running beside the command handlers (Spec) *)

\* the job is suspended in the evaluation of a subscription, before its
\* update_last_video
Evaluating(j) == j.pc \in {"search", "upinfo", "upvideos", "vinfo"}

\* C12: when the job resumes the evaluation of a subscription that an
\* unsubscribe removed while it was suspended, its update_last_video changes
\* neither the store nor the file and the subscription stays removed
C12_UpdateOfRemovedIsNoOp ==
    [][(JobStep /\ Evaluating(job) /\ ~Watched(data, job.g, job.up_name))
          => (data' = data /\ file' = file /\ name_index' = name_index)]_vars

\* C12 witness: the job has just gone through update_last_video (and on to the
\* notification) for a subscription that is no longer stored
C12_Witness ==
    /\ job.pc = "send"
    /\ ev.type = "notify"
    /\ ~Watched(data, job.g, job.up_name)
    /\ prev[JobKey(job)].vid = job.latest

\* get_all_watches returns the object _data itself, not a copy: what the caller
\* holds is, at any later time, the store as it is at that time
get_all_watches(d) == d

\* the job holds all_watches from its entry until it returns
HoldsAllWatches(j) == j.pc # "idle"

\* C13: the value get_all_watches returned to the running job is not changed by
\* a later add_watch, remove_watch or update_last_video
C13_ListAllIsSnapshot ==
    [][(HoldsAllWatches(job) /\ HoldsAllWatches(job'))
          => get_all_watches(data') = get_all_watches(data)]_vars

\* C14: when the evaluation of a subscription ends without a record of its
\* creator (the lookups failed, returned nothing or only other creators'
\* records), the subscription stays stored with its record as it was and no
\* notification is emitted for it
C14_NoRecordLeavesStateUntouched ==
    [][(/\ JobStep
        /\ Evaluating(job)
        /\ Watched(data, job.g, job.up_name)
        /\ prev'[JobKey(job)].vid = None)
          => (/\ Watched(data', job.g, job.up_name)
              /\ RecOf(data', JobKey(job)) = RecOf(data, JobKey(job))
              /\ ~(ev'.type = "notify" /\ ev'.g = job.g /\ ev'.name = job.up_name))]_vars

\* C14 witness: a pass has ended in which the search for a stored subscription
\* returned records of another creator only
C14_Witness ==
    /\ ev.type = "job_done"
    /\ \E k \in SubKeys :
          /\ Watched(data, k[1], k[2])
          /\ prev[k] = NoEval
          /\ CacheKey("up", k[2]) \in DOMAIN search_cache
          /\ LET page == search_cache[CacheKey("up", k[2])].data
             IN  /\ page # <<>>
                 /\ \A i \in 1..Len(page) : ~Attributable(page[i].bvid, k[2])

-----------------------------------------------------------------------------
(* The job alone: passes of check_up_updates over a stored file, with every   *)
(* lookup and every send free to fail, and no command running beside it.      *)

\* marks a subscription the current pass has not reached yet
Pending == [vid |-> "pending", differs |-> FALSE, emitted |-> FALSE]

\* a stored record without 'last_check' (written by hand or by another version)
BadRec(last_vid) == [last_vid |-> last_vid]

\* what a file may hold for creator c: nothing, or one record
PassRecs(c) ==
    LET old == CHOOSE v \in Videos : Owner(v) = c /\ Pubdate(v) < 0
    IN  {<<>>} \cup {<<[k |-> c.uname, v |-> r]>> : r \in {Rec(-1, old), BadRec(old)}}

PassUps == {a \o k : a \in PassRecs(UpAb), k \in PassRecs(UpK)}

\* the stored files: groups "1" and "2", a group without records is not stored
PassFiles ==
    {Written(SelectSeq(<<[k |-> "1", v |-> u1], [k |-> "2", v |-> u2]>>,
                       LAMBDA e : e.v # <<>>)) : u1 \in PassUps, u2 \in PassUps}

InitPass ==
    /\ legacy \in PassFiles
    /\ LET S == _load_and_migrate(legacy, "ok")
       IN  data = S.data /\ name_index = S.name_index /\ file = S.file
    /\ now = 0
    /\ faults = 0
    /\ phase = "up"
    /\ Quiet

\* the interval trigger fires; the subscriptions stored at that time are the
\* ones the pass has to reach
PassTick ==
    /\ phase = "up"
    /\ now < MaxTime
    /\ now' = now + UP_WATCH_INTERVAL
    /\ IF job.pc = "idle"
       THEN Becomes(JobStart([WNow EXCEPT !.prev =
                                 [k \in SubKeys |-> IF Watched(data, k[1], k[2])
                                                    THEN Pending ELSE prev[k]]],
                             now + UP_WATCH_INTERVAL))
       ELSE Becomes(WNow)
    /\ UNCHANGED <<cmds, issued, faults, legacy, phase>>

NextPass ==
    \/ PassTick
    \/ JobSearchReturn
    \/ JobUpInfoReturn
    \/ JobUpVideosReturn
    \/ JobVideoInfoReturn
    \/ JobSendReturn

SpecPass == InitPass /\ [][NextPass]_vars

\* C15: whatever fails in the evaluation of a subscription (a lookup, the send,
\* a stored record without last_check), the pass is not aborted and has reached
\* every stored subscription when it ends
C15_FailureDoesNotAbortPass ==
    /\ ev.type # "job_aborted"
    /\ job.pc = "idle" => \A k \in SubKeys : Watched(data, k[1], k[2]) => prev[k] # Pending

\* C15 witness: a pass over two groups has ended; the first group's record has
\* no last_check, and a subscription of the second group was notified after it
C15_Witness ==
    /\ ev.type = "job_done"
    /\ Len(data) = 2
    /\ \E i \in 1..Len(data[1].v) : ~HasLastCheck(data[1].v[i].v)
    /\ \E i \in 1..Len(data[2].v) : prev[<<data[2].k, data[2].v[i].k>>].emitted

-----------------------------------------------------------------------------
(* The search cache: the search commands call get_bilibili_search, which     *)
(* reads search_cache and, after its HTTP call, writes it; clear_cache sweeps *)
(* it.  Here prev holds, for every cache key, the last entry written (the     *)
(* sweep does not touch it) and ev the outcome of the last read.              *)

MaxClock == 4

CacheKinds == {"video", "up"}

CacheTexts == WatchTexts

CacheKeys == {CacheKey(kind, Strip(text)) : kind \in CacheKinds, text \in CacheTexts}

NoPut == [put |-> FALSE, t |-> 0, data |-> <<>>]

Put(results, t) == [put |-> TRUE, t |-> t, data |-> results]

\* a running search handler
SearchCmd(pc, kind, keyword) == [pc |-> pc, kind |-> kind, keyword |-> keyword]

\* results = [v for v in results if 'author' in v]
WithAuthor(results) == SelectSeq(results, LAMBDA v : "author" \in DOMAIN v)

\* the outcome of a read of the cache, with the last entry written for the key
Read(type, key, value) ==
    [type |-> type, key |-> key, at |-> now, value |-> value, before |-> prev[key]]

InitCache ==
    /\ legacy = NoFile
    /\ file = NoFile
    /\ data = <<>>
    /\ name_index = EmptyIdx
    /\ search_cache = [x \in {} |-> <<>>]
    /\ now = 0
    /\ job = JobIdle
    /\ cmds = EmptyBag
    /\ prev = [k \in CacheKeys |-> NoPut]
    /\ ev = NoEvent
    /\ issued = 0
    /\ faults = 0
    /\ phase = "up"

\* search_bilibili_video / search_bilibili_up up to their first send
SearchStart(kind, text) ==
    /\ phase = "up"
    /\ issued < MaxCmds
    /\ issued' = issued + 1
    /\ cmds' = Spawn(SearchCmd("s_send", kind, Strip(text)))
    /\ UNCHANGED <<data, name_index, file, search_cache, now, job, prev, ev, faults, legacy, phase>>

\* the send returns and get_bilibili_search reads the cache: a fresh entry is
\* returned at once, otherwise the HTTP call is made
SearchCall(c) ==
    /\ phase = "up"
    /\ c.pc = "s_send"
    /\ LET key == CacheKey(c.kind, c.keyword) IN
       IF CacheFresh(search_cache, key, now)
       THEN /\ ev' = Read("hit", key, FirstN(search_cache[key].data, MAX_RESULTS))
            /\ cmds' = Finish(c)
       ELSE /\ ev' = Read("miss", key, <<>>)
            /\ cmds' = Resume(c, SearchCmd("s_http", c.kind, c.keyword))
    /\ UNCHANGED <<data, name_index, file, search_cache, now, job, prev, issued, faults, legacy, phase>>

\* the HTTP call of get_bilibili_search returns: code 0 writes the cache
SearchReturn(c) ==
    /\ phase = "up"
    /\ c.pc = "s_http"
    /\ cmds' = Finish(c)
    /\ \E ans \in SearchAnswers(now) :
          IF ans.ok
          THEN LET key == CacheKey(c.kind, c.keyword)
                   page == FirstN(ans.list, MAX_RESULTS)
                   results == IF c.kind = "up" THEN WithAuthor(page) ELSE page
               IN  /\ search_cache' = IdxSet(search_cache, key, [data |-> results, t |-> now])
                   /\ prev' = [prev EXCEPT ![key] = Put(results, now)]
          ELSE UNCHANGED <<search_cache, prev>>
    /\ UNCHANGED <<data, name_index, file, now, job, ev, issued, faults, legacy, phase>>

\* a sweep that deletes every entry
clear_cache_All(cache, t) == [k \in {} |-> cache[k]]

\* clear_cache: the keys whose entry is older than the expiry are deleted
clear_cache(cache, t) ==
    [k \in {x \in DOMAIN cache : ~(t - cache[x].t > CACHE_EXPIRE_MINUTES)} |-> cache[k]]

Sweep ==
    /\ phase = "up"
    /\ search_cache' = clear_cache(search_cache, now)
    /\ ev' = [type |-> "swept", at |-> now]
    /\ UNCHANGED <<data, name_index, file, now, job, cmds, prev, issued, faults, legacy, phase>>

CacheTick ==
    /\ phase = "up"
    /\ now < MaxClock
    /\ now' = now + 1
    /\ UNCHANGED <<data, name_index, file, search_cache, job, cmds, prev, ev, issued, faults, legacy, phase>>

NextCache ==
    \/ \E kind \in CacheKinds, text \in CacheTexts : SearchStart(kind, text)
    \/ \E c \in Running : SearchCall(c)
    \/ \E c \in Running : SearchReturn(c)
    \/ Sweep
    \/ CacheTick

SpecCache == InitCache /\ [][NextCache]_vars

IsRead(e) == e.type \in {"hit", "miss"}

\* C16: a read in the same minute as the last write of its key returns the
\* written value, and a read CACHE_EXPIRE_MINUTES or more after it is a miss
C16_CacheTTL ==
    (IsRead(ev) /\ ev.before.put)
        => /\ ev.at = ev.before.t => (ev.type = "hit" /\ ev.value = ev.before.data)
           /\ ev.at - ev.before.t >= CACHE_EXPIRE_MINUTES => ev.type = "miss"

\* C16 witness: a read has missed on an entry that is still in the cache, the
\* expiry after it was written
C16_Witness ==
    /\ IsRead(ev)
    /\ ev.type = "miss"
    /\ ev.before.put
    /\ ev.key \in DOMAIN search_cache
    /\ search_cache[ev.key].t = ev.before.t
    /\ ev.at - ev.before.t >= CACHE_EXPIRE_MINUTES

\* C17: what a read returns is determined by the last write of its key alone
\* (a hit with the written value while younger than the expiry, else a miss),
\* whatever sweeps have run; and a sweep leaves every entry a read would serve
C17_SweepInvisible ==
    [][/\ IsRead(ev')
          => /\ ev'.type = "hit" <=> (ev'.before.put /\ ev'.at - ev'.before.t < CACHE_EXPIRE_MINUTES)
             /\ ev'.type = "hit" => ev'.value = ev'.before.data
       /\ (ev'.type = "swept" /\ cmds' = cmds /\ now' = now)
          => \A k \in DOMAIN search_cache :
                CacheFresh(search_cache, k, now)
                    => (k \in DOMAIN search_cache' /\ search_cache'[k] = search_cache[k])]_vars

\* C17 witness: a read is served from the cache after a sweep has deleted the
\* expired entry of another key
C17_Witness ==
    /\ IsRead(ev)
    /\ ev.type = "hit"
    /\ \E k \in CacheKeys : prev[k].put /\ k \notin DOMAIN search_cache

-----------------------------------------------------------------------------
(* Properties of the storage calls (SpecPersist) *)

\* C18: every stored subscription (G, c) is what the index holds under the
\* normalized name of c, and every index entry is a stored subscription
C18_IndexConsistent ==
    phase = "up"
        => /\ \A i \in 1..Len(data) : \A k \in 1..Len(data[i].v) :
                 LET c == data[i].v[k].k
                 IN  find_up_by_name(name_index, c) = <<data[i].k, c>>
           /\ \A n \in DOMAIN name_index : Watched(data, name_index[n][1], name_index[n][2])

-----------------------------------------------------------------------------
(* The running process with the subscriptions of each pass marked: the job,  *)
(* the handlers of 关注up and 取关up and the clock as in Spec, the interval  *)
(* trigger as in SpecPass.                                                    *)

\* the files the process may be started on: a subscription to each creator,
\* in one group or in two
RaceFiles ==
    {Written(<<[k |-> "1", v |-> <<[k |-> UpAb.uname, v |-> Rec(-1, "V1")],
                                   [k |-> UpK.uname, v |-> Rec(-1, "W1")]>>]>>),
     Written(<<[k |-> "1", v |-> <<[k |-> UpAb.uname, v |-> Rec(-1, "V1")]>>],
               [k |-> "2", v |-> <<[k |-> UpK.uname, v |-> Rec(-1, "W1")]>>]>>)}

\* the process has been up for a while: one interval is left to observe
InitRace ==
    /\ legacy \in RaceFiles
    /\ LET S == _load_and_migrate(legacy, "ok")
       IN  data = S.data /\ name_index = S.name_index /\ file = S.file
    /\ now = MaxTime - 1
    /\ faults = 0
    /\ phase = "up"
    /\ Quiet

NextRace ==
    \/ PassTick
    \/ JobSearchReturn
    \/ JobUpInfoReturn
    \/ JobUpVideosReturn
    \/ JobVideoInfoReturn
    \/ JobSendReturn
    \/ \E gid \in GroupIds, text \in WatchTexts : WatchStart(gid, text)
    \/ \E c \in Running : WatchUpInfoReturn(c)
    \/ \E c \in Running : WatchUpVideosReturn(c)
    \/ \E gid \in GroupIds, text \in UnwatchTexts : Unwatch(gid, text)

SpecRace == InitRace /\ [][NextRace]_vars

\* C19: when a pass has ended, every subscription that was stored when it
\* started and has been stored ever since has been evaluated in it, whatever
\* commands ran while it was suspended
C19_CommandsDoNotTruncatePass ==
    job.pc = "idle" => \A k \in SubKeys : Watched(data, k[1], k[2]) => prev[k] # Pending

-----------------------------------------------------------------------------
(* Properties of the notifications (Spec) *)

\* C20: a notification is emitted for a subscription only while it is stored:
\* none for one that an unsubscribe removed while its evaluation was suspended
C20_NoNotifyAfterUnsubscribe ==
    ev.type = "notify" => Watched(data, ev.g, ev.name)

\* C21: while the notification for a record C that differs from the last_vid
\* the job read is still to be delivered (the job is suspended in the send, which
\* may yet fail), the stored last_vid has not advanced to C
C21_AdvanceOnlyAfterDelivery ==
    (/\ job.pc = "send"
     /\ Watched(data, job.g, job.up_name)
     /\ prev[JobKey(job)].differs)
        => RecOf(data, JobKey(job)).last_vid # job.latest

-----------------------------------------------------------------------------
(* The job from the time on at which the platform answers every lookup and   *)
(* every send is delivered: group 1 watches Ab with last_vid V1, the platform *)
(* has V2 as Ab's latest video, and the cache may still hold an older page.   *)
(* One more command runs beside the job.  The clock stops at                 *)
(* MaxClock, the passes go on: entries written from then on stay fresh, and   *)
(* every entry written before has expired by then.                            *)

\* the creator's latest video on the platform
LatestOf(up_name) ==
    CHOOSE v \in Videos :
        /\ Attributable(v, up_name)
        /\ \A w \in Videos : Attributable(w, up_name) => Pubdate(w) <= Pubdate(v)

LiveFiles ==
    {Written(<<[k |-> "1", v |-> <<[k |-> UpAb.uname, v |-> Rec(-1, "V1")]>>]>>),
     Written(<<[k |-> "1", v |-> <<[k |-> UpK.uname, v |-> Rec(-1, "W1")],
                                   [k |-> UpAb.uname, v |-> Rec(-1, "V1")]>>]>>)}

\* the cache at that time: empty, or a page without V2 for Ab written just now
LiveCaches ==
    {[x \in {} |-> <<>>],
     [x \in {CacheKey("up", UpAb.uname)} |-> [data |-> <<Video("V1")>>, t |-> 0]]}

InitLive ==
    /\ legacy \in LiveFiles
    /\ LET S == _load_and_migrate(legacy, "ok")
       IN  data = S.data /\ name_index = S.name_index /\ file = S.file
    /\ search_cache \in LiveCaches
    /\ now = 0
    /\ job = JobIdle
    /\ cmds = EmptyBag
    /\ prev = [k \in SubKeys |-> NoEval]
    /\ ev = NoEvent
    /\ issued = MaxCmds - 1
    /\ faults = 0
    /\ phase = "up"

\* the interval trigger, with the clock stopping at MaxClock
LiveTick ==
    /\ phase = "up"
    /\ now' = IF now < MaxClock THEN now + UP_WATCH_INTERVAL ELSE now
    /\ IF job.pc = "idle" THEN Becomes(JobStart(WNow, now')) ELSE Becomes(WNow)
    /\ UNCHANGED <<cmds, issued, faults, legacy, phase>>

\* the search succeeds and its first record of the creator is the latest one
LiveSearchReturn ==
    /\ JobSearchReturn
    /\ LET key == CacheKey("up", job.up_name) IN
       /\ key \in DOMAIN search_cache'
       /\ search_cache'[key].t = now
       /\ FirstByAuthor(search_cache'[key].data, job.up_name) = <<Video(LatestOf(job.up_name))>>

\* get_video_info(last_vid) succeeds: is_new is the comparison of the pubdates
LiveVideoInfoReturn ==
    /\ JobVideoInfoReturn
    /\ prev'[JobKey(job)].emitted = (Pubdate(job.latest) > Pubdate(job.last_vid))

\* the send is delivered
LiveSendReturn ==
    /\ JobSendReturn
    /\ ev'.type # "send_failed"

NextLive ==
    \/ LiveTick
    \/ LiveSearchReturn
    \/ LiveVideoInfoReturn
    \/ LiveSendReturn
    \/ \E gid \in GroupIds, text \in WatchTexts \cup {UpK.uname} : WatchStart(gid, text)
    \/ \E c \in Running : WatchUpInfoReturn(c)
    \/ \E c \in Running : WatchUpVideosReturn(c)
    \/ \E gid \in GroupIds : Unwatch(gid, UpK.uname)

\* The scheduler fires the trigger again and again, and every HTTP call and
\* every send of the job returns (each has a timeout).  Each conjunct is weak
\* fairness of one job step, WF_vars(A), with ENABLED <<A>>_vars written as the
\* state predicate it equals: the trigger starts a pass whenever the job is
\* idle, and a return is possible exactly while the job is suspended in that call.
SpecLive ==
    /\ InitLive
    /\ [][NextLive]_vars
    /\ ([]<>(job.pc # "idle") \/ []<><<LiveTick>>_vars)
    /\ ([]<>(job.pc # "search") \/ []<><<LiveSearchReturn>>_vars)
    /\ ([]<>(job.pc # "vinfo") \/ []<><<LiveVideoInfoReturn>>_vars)
    /\ ([]<>(job.pc # "send") \/ []<><<LiveSendReturn>>_vars)

====
